---- MODULE Spec2Model ----
(***************************************************************************)
(* A model of leifdb's Raft core (src/internal/node/node.go): a cluster of *)
(* Node processes that elect a leader (DoElection / HandleVote), replicate *)
(* a log (Set / Delete / SendAppend / HandleAppend) and persist their term *)
(* record and log.                                                         *)
(*                                                                         *)
(* Every RPC is one step: the caller builds the request from its state,    *)
(* the peer's handler runs (or the request is lost), and the caller        *)
(* processes the reply (or the reply is lost and the call times out).      *)
(* DoElection and SendAppend span several steps, one per RPC they issue    *)
(* and one per block of code between two waits; incoming handlers take no  *)
(* lock in the source, so they interleave with those steps.                *)
(*                                                                         *)
(* A Go runtime panic (index out of range, nil dereference) terminates     *)
(* the process; the node then continues as the process started again from  *)
(* the files it left behind (NewNode).                                     *)
(***************************************************************************)
EXTENDS Integers, Sequences, FiniteSets, TLC

\* ------------------------------------------------------------------ bounds
NumNodes == 3
MaxResetSignals == 1
NumValues == 1

\* the retry count applyRecord hands to SendAppend
ApplyRetries == 3

Node == 1..NumNodes
Nil == 0
Keys == {"k"}
Values == 1..NumValues

VARIABLES
    node,       \* node[n]: the Node struct of process n, with its two files
    task,       \* task[n]: the DoElection or SendAppend call in progress on n
    used,       \* how many elections, lost messages, ... the run has had
    ledTerms,   \* ledTerms[n]: the terms n has held while in role Leader
    won,        \* won[n]: the terms whose election n has won
    applied,    \* applied[n]: the log indices n's process has applied to its
                \* store, in the order of the Store.Set / Store.Delete calls
    appended,   \* appended[n]: the record the Set or Delete call in progress on
                \* n has appended to the log, NoRecord when none is in progress
    returned,   \* returned[n]: the error the latest Set or Delete call on n
                \* returned, NotReturned while it runs
    built       \* built[n]: the record of a Set or Delete call on n that has
                \* built it and has not yet passed n.Lock()

vars == <<node, task, used, ledTerms, won, applied, appended, returned,
          built>>

\* ------------------------------------------------------------- small helpers
Min(a, b) == IF a < b THEN a ELSE b

\* Go slice s[from:] and s[:to] over 0-based indices
SliceFrom(s, from) == SubSeq(s, from + 1, Len(s))
SliceTo(s, to) == SubSeq(s, 1, to)

\* Entries[i] for a 0-based index i inside the slice
At(s, i) == s[i + 1]
InRange(s, i) == i >= 0 /\ i < Len(s)

\* -------------------------------------------------------------- durable store
\* ReadTerm on a missing file
ZeroTermRecord == [Term |-> 0, VotedFor |-> Nil]

\* ReadLogs on a missing file
EmptyLogStore == << >>

\* ------------------------------------------------------------------- peers
NewForeignNode == [NextIndex |-> 0, MatchIndex |-> -1, Available |-> TRUE]

\* ------------------------------------------------------------------- NewNode
NewNode(id, nodeIds, termFile, logFile) ==
    [ RaftNode    |-> id,
      NodeIds     |-> nodeIds,
      State       |-> "Follower",
      Term        |-> termFile.Term,
      votedFor    |-> termFile.VotedFor,
      otherNodes  |-> [k \in nodeIds |-> NewForeignNode],
      AllowVote   |-> TRUE,
      CommitIndex |-> -1,
      lastApplied |-> -1,
      Log         |-> logFile,
      Store       |-> [k \in Keys |-> Nil],
      Reset       |-> 0,
      TermFile    |-> termFile,
      LogFile     |-> logFile ]

\* the process dies (panic, kill) and is started again over the same files
Restarted(nd) == NewNode(nd.RaftNode, nd.NodeIds, nd.TermFile, nd.LogFile)

\* ------------------------------------------------------------ RedirectLeader
\* the empty string
NoAddress == << >>

\* the ClientAddr that the raft.Node of node id carries: a non-empty string
\* of its own
ClientAddr(id) == <<id>>

RedirectLeader(nd) ==
    IF nd.votedFor = Nil THEN NoAddress ELSE ClientAddr(nd.votedFor)

\* ------------------------------------------------------------ state setters
\* SetTerm without its WriteTerm call
SetTermInMemory(nd, newTerm, votedFor) ==
    [nd EXCEPT !.Term = newTerm, !.votedFor = votedFor]

SetTerm(nd, newTerm, votedFor) ==
    [nd EXCEPT !.Term = newTerm,
               !.votedFor = votedFor,
               !.TermFile = [Term |-> newTerm, VotedFor |-> votedFor]]

resetElectionTimer(nd) ==
    [nd EXCEPT !.State = "Follower",
               !.Reset = Min(@ + 1, MaxResetSignals)]

setLog(nd, newLogs) ==
    [nd EXCEPT !.Log = newLogs, !.LogFile = newLogs]

\* Store.Set / Store.Delete for one log record
ApplyToStore(store, rec) ==
    IF rec.Action = "SET"
    THEN [store EXCEPT ![rec.Key] = rec.Value]
    ELSE [store EXCEPT ![rec.Key] = Nil]

RECURSIVE ApplyRange(_, _, _, _)
\* apply Entries[from..to] (0-based, inclusive) to the store in index order
ApplyRange(store, entries, from, to) ==
    IF from > to THEN store
    ELSE ApplyRange(ApplyToStore(store, At(entries, from)), entries, from + 1, to)

\* ------------------------------------------------------------------ HandleVote
checkForeignNode(addr, known) == addr \in DOMAIN known

\* the value candidateLogUpToDate returns when it returns
candidateLogUpToDate(nd, cLogIndex, cLogTerm) ==
    LET indexGreater == cLogIndex > nd.CommitIndex
        indexEqual == cLogIndex = nd.CommitIndex
        bothEmpty == cLogIndex = -1 /\ nd.CommitIndex = -1
    IN  \/ indexGreater
        \/ bothEmpty
        \/ (indexEqual /\ InRange(nd.Log, cLogIndex)
              /\ cLogTerm = At(nd.Log, cLogIndex).Term)

\* candidateLogUpToDate indexes n.Log.Entries[cLogIndex] twice without a
\* range check of its own: in the third disjunct of upToDate, and in the
\* failure log when indexPresent (cLogIndex < len) holds.
candidateLogUpToDatePanics(nd, cLogIndex, cLogTerm) ==
    LET indexGreater == cLogIndex > nd.CommitIndex
        indexEqual == cLogIndex = nd.CommitIndex
        bothEmpty == cLogIndex = -1 /\ nd.CommitIndex = -1
        indexPresent == cLogIndex < Len(nd.Log)
    IN  \/ (~indexGreater /\ ~bothEmpty /\ indexEqual
              /\ ~InRange(nd.Log, cLogIndex))
        \/ (~candidateLogUpToDate(nd, cLogIndex, cLogTerm)
              /\ indexPresent /\ ~InRange(nd.Log, cLogIndex))

VoteReply(nd, vote) ==
    [panic |-> FALSE, node |-> nd, Term |-> nd.Term, VoteGranted |-> vote,
     Node |-> nd.RaftNode]

\* the handler's goroutine panicked: the process is gone and no reply is sent
Panicked(nd) ==
    [panic |-> TRUE, node |-> Restarted(nd), Term |-> 0, VoteGranted |-> FALSE,
     Success |-> FALSE, Node |-> nd.RaftNode]

\* HandleVote without the AllowVote branch
HandleVoteIgnoringGrace(nd, req) ==
    IF req.Term < nd.Term THEN
        VoteReply(nd, FALSE)
    ELSE IF req.Term = nd.Term THEN
        IF nd.State = "Leader"
        THEN VoteReply(SetTerm(nd, nd.Term + 1, nd.RaftNode), FALSE)
        ELSE VoteReply(nd, FALSE)
    ELSE IF ~checkForeignNode(req.Candidate, nd.otherNodes) THEN
        VoteReply(nd, FALSE)
    ELSE IF candidateLogUpToDatePanics(nd, req.LastLogIndex, req.LastLogTerm) THEN
        Panicked(nd)
    ELSE IF ~candidateLogUpToDate(nd, req.LastLogIndex, req.LastLogTerm) THEN
        VoteReply(nd, FALSE)
    ELSE
        VoteReply(SetTerm(resetElectionTimer(nd), req.Term, req.Candidate), TRUE)

HandleVote(nd, req) ==
    IF req.Term < nd.Term THEN
        VoteReply(nd, FALSE)
    ELSE IF req.Term = nd.Term THEN
        IF nd.State = "Leader"
        THEN VoteReply(SetTerm(nd, nd.Term + 1, nd.RaftNode), FALSE)
        ELSE VoteReply(nd, FALSE)
    ELSE IF ~checkForeignNode(req.Candidate, nd.otherNodes) THEN
        VoteReply(nd, FALSE)
    ELSE IF candidateLogUpToDatePanics(nd, req.LastLogIndex, req.LastLogTerm) THEN
        Panicked(nd)
    ELSE IF ~candidateLogUpToDate(nd, req.LastLogIndex, req.LastLogTerm) THEN
        VoteReply(nd, FALSE)
    ELSE IF ~nd.AllowVote THEN
        VoteReply(nd, FALSE)
    ELSE
        VoteReply(SetTerm(resetElectionTimer(nd), req.Term, req.Candidate), TRUE)

\* ---------------------------------------------------------------- HandleAppend
\* n.votedFor.Id is read through a nil pointer when no vote is recorded
validateAppendPanics(nd, term, leaderId) ==
    term = nd.Term /\ nd.votedFor = Nil

validateAppend(nd, term, leaderId) ==
    ~ (term < nd.Term) /\ ~ (term = nd.Term /\ leaderId # nd.votedFor)

\* `matches` indexes the log before `inRange` is consulted
checkPreviousPanics(nd, prevIndex, prevTerm) ==
    prevIndex >= 0 /\ ~InRange(nd.Log, prevIndex)

checkPrevious(nd, prevIndex, prevTerm) ==
    \/ prevIndex < 0
    \/ (prevIndex < Len(nd.Log) /\ At(nd.Log, prevIndex).Term = prevTerm)

RECURSIVE FirstMismatch(_, _, _, _)
\* the loop of reconcileLogs from position i on: the mismatch index it
\* breaks with, or -1 when it runs off the end of overlappingEntries
FirstMismatch(overlappingEntries, entries, prevLogIndex, i) ==
    IF i >= Len(overlappingEntries) THEN -1
    ELSE IF i >= Len(entries) THEN prevLogIndex + i
    ELSE IF At(overlappingEntries, i).Term # At(entries, i).Term
         THEN prevLogIndex + 1 + i
    ELSE FirstMismatch(overlappingEntries, entries, prevLogIndex, i + 1)

reconcileLogs(logEntries, body) ==
    LET mismatchIdx ==
            IF body.PrevLogIndex < Len(logEntries) - 1
            THEN FirstMismatch(SliceFrom(logEntries, body.PrevLogIndex + 1),
                               body.Entries, body.PrevLogIndex, 0)
            ELSE -1
        kept == IF mismatchIdx >= 0 THEN SliceTo(logEntries, mismatchIdx)
                ELSE logEntries
        offset == (Len(kept) - 1) - body.PrevLogIndex
        newLogs == SliceFrom(body.Entries, offset)
    IN  kept \o newLogs

\* the loop of applyCommittedLogs reads Entries[CommitIndex] after each
\* increment; the clamp lets commitIdx reach len(Entries), one past the end
applyCommittedLogsPanics(nd, commitIdx) ==
    /\ commitIdx > nd.CommitIndex
    /\ Min(commitIdx, Len(nd.Log)) > nd.CommitIndex
    /\ Min(commitIdx, Len(nd.Log)) >= Len(nd.Log)

applyCommittedLogs(nd, commitIdx) ==
    IF commitIdx > nd.CommitIndex
    THEN LET lastIndex == Len(nd.Log)
             upTo == IF commitIdx > lastIndex THEN lastIndex ELSE commitIdx
         IN  IF nd.CommitIndex < upTo
             THEN [nd EXCEPT !.CommitIndex = upTo,
                             !.Store = ApplyRange(@, nd.Log,
                                                  nd.CommitIndex + 1, upTo)]
             ELSE nd
    ELSE nd

AppendReply(nd, success) ==
    [panic |-> FALSE, node |-> nd, Term |-> nd.Term, Success |-> success]

\* the part of HandleAppend that runs once the request is valid and matched
AcceptEntries(nd, req) ==
    IF Len(req.Entries) > 0
    THEN setLog(nd, reconcileLogs(nd.Log, req))
    ELSE nd

\* the tail of HandleAppend for a valid request
UpdateTerm(nd, req) ==
    resetElectionTimer(IF req.Term > nd.Term
                       THEN SetTerm(nd, req.Term, req.Leader)
                       ELSE nd)

HandleAppend(nd, req) ==
    IF validateAppendPanics(nd, req.Term, req.Leader) THEN
        Panicked(nd)
    ELSE
    LET valid == validateAppend(nd, req.Term, req.Leader)
        n1 == IF valid THEN resetElectionTimer(nd) ELSE nd
    IN  IF checkPreviousPanics(n1, req.PrevLogIndex, req.PrevLogTerm) THEN
            Panicked(n1)
        ELSE
        LET matched == checkPrevious(n1, req.PrevLogIndex, req.PrevLogTerm)
        IN  IF ~valid THEN
                AppendReply(n1, FALSE)
            ELSE IF ~matched THEN
                AppendReply(UpdateTerm(n1, req), FALSE)
            ELSE
                LET n2 == AcceptEntries(n1, req)
                IN  IF applyCommittedLogsPanics(n2, req.LeaderCommit)
                    THEN Panicked(n2)
                    ELSE AppendReply(
                            UpdateTerm(applyCommittedLogs(n2, req.LeaderCommit), req),
                            TRUE)

\* ------------------------------------------------------------- cluster set-up
\* Every node lists every other node.
FullConfig == [n \in Node |-> Node \ {n}]

\* The nodes below NumNodes form a cluster among themselves; node NumNodes
\* is configured with all of them but is listed by none (a node that was
\* started before the others were told about it).
OutsiderConfig ==
    [n \in Node |-> IF n = NumNodes THEN Node \ {n} ELSE Node \ {n, NumNodes}]

Idle == [pc |-> "idle"]

\* no Set or Delete call has returned: none was made, or it is still running
NotReturned == "none"

\* no Set or Delete call is waiting for the node lock
NoRecord == [Action |-> "none"]

\* the calls that wait for the lock of a process end with the process
Surviving(dead) == [n \in Node |-> IF n \in dead THEN NoRecord ELSE built[n]]

InitWith(cfg) ==
    /\ node = [n \in Node |-> NewNode(n, cfg[n], ZeroTermRecord, EmptyLogStore)]
    /\ task = [n \in Node |-> Idle]
    /\ used = [elections |-> 0, faults |-> 0, heartbeats |-> 0,
               writes |-> 0, restarts |-> 0, refused |-> 0]
    /\ returned = [n \in Node |-> NotReturned]
    /\ built = [n \in Node |-> NoRecord]
    /\ ledTerms = [n \in Node |-> {}]
    /\ won = [n \in Node |-> {}]
    /\ applied = [n \in Node |-> << >>]
    /\ appended = [n \in Node |-> NoRecord]

\* ------------------------------------------------------------------ DoElection
\* majority as DoElection computes it
ElectionMajority(nd) == ((Cardinality(DOMAIN nd.otherNodes) + 1) \div 2) + 1

\* lines 431-456: take the next term, vote for self, start one goroutine per peer
DoElection(n) ==
    /\ task[n].pc = "idle"
    /\ used' = [used EXCEPT !.elections = @ + 1]
    /\ UNCHANGED <<returned, built>>
    /\ LET nd == SetTerm(node[n], node[n].Term + 1, node[n].RaftNode)
       IN  /\ node' = [node EXCEPT ![n] = nd]
           /\ task' = [task EXCEPT ![n] =
                          [pc |-> "voting",
                           numVotes |-> 1,
                           maxTermSeen |-> nd.Term,
                           maxTermSeenSource |-> nd.votedFor,
                           pending |-> DOMAIN nd.otherNodes,
                           loaded |-> {},
                           started |-> nd.Term,
                           granted |-> 0,
                           maxTermReplied |-> nd.Term]]

\* the request requestVote builds
VoteRequest(nd) ==
    LET lastLogIndex == Len(nd.Log) - 1
    IN  [Term |-> nd.Term,
         Candidate |-> nd.RaftNode,
         LastLogIndex |-> lastLogIndex,
         LastLogTerm |-> IF lastLogIndex >= 0 THEN At(nd.Log, lastLogIndex).Term
                         ELSE 0]

SetAvailable(nd, host, avail) ==
    [nd EXCEPT !.otherNodes[host].Available = avail]

\* lines 473-483: one goroutine's share of the tally
Tally(t, vote) ==
    IF vote.VoteGranted
    THEN [t EXCEPT !.numVotes = @ + 1]
    ELSE IF vote.Term > t.maxTermSeen
         THEN [t EXCEPT !.maxTermSeen = vote.Term,
                        !.maxTermSeenSource = vote.Node]
         ELSE t

PeerDone(t, k) == [t EXCEPT !.pending = @ \ {k}]

\* the replies the goroutines of one DoElection call have received so far:
\* how many granted, and the highest term among n.Term at line 451 and the
\* terms of those that denied
Received(t, vote) ==
    IF vote.VoteGranted
    THEN [t EXCEPT !.granted = @ + 1]
    ELSE [t EXCEPT !.maxTermReplied = IF vote.Term > @ THEN vote.Term ELSE @]

\* the peers whose goroutine is between its read of numVotes or maxTermSeen
\* and its write
Loaded(t) == {l.peer : l \in t.loaded}

\* how an RPC ends. "lost": the request never reaches the peer; "timeout":
\* the peer handles it but the reply misses the deadline; "ok": the reply
\* arrives; "none": requestAppend returns before it sends anything.
RpcOutcomes == {"lost", "timeout", "ok"}
Outcomes == RpcOutcomes \cup {"none"}

\* a lost or late message is counted
Count(outcome) ==
    used' = IF outcome \in {"lost", "timeout"}
            THEN [used EXCEPT !.faults = @ + 1]
            ELSE used

\* One goroutine of DoElection: requestVote(k) and the tally of its reply.
RequestVote(n, k, outcome) ==
    /\ task[n].pc = "voting"
    /\ k \in task[n].pending \ Loaded(task[n])
    /\ outcome \in RpcOutcomes
    /\ Count(outcome)
    /\ UNCHANGED returned
    /\ IF outcome = "lost" THEN
          /\ node' = [node EXCEPT ![n] = SetAvailable(@, k, FALSE)]
          /\ task' = [task EXCEPT ![n] = PeerDone(@, k)]
          /\ UNCHANGED built
       ELSE
          LET vote == HandleVote(node[k], VoteRequest(node[n]))
              heard == outcome = "ok" /\ ~vote.panic
          IN  /\ built' = Surviving(IF vote.panic THEN {k} ELSE {})
              /\ node' = [node EXCEPT ![k] = vote.node,
                                      ![n] = SetAvailable(@, k, heard)]
              /\ task' = [task EXCEPT
                            ![k] = IF vote.panic THEN Idle ELSE @,
                            ![n] = PeerDone(IF heard
                                            THEN Tally(Received(@, vote), vote)
                                            ELSE @, k)]

\* numVotes++ (line 475) and the test and assignment of maxTermSeen (lines
\* 479-481) are a read followed by a write of a variable the goroutines
\* share without a lock. TallyLoad is one goroutine up to its read: the
\* reply has arrived and the goroutine holds the value it has read.
TallyLoad(n, k) ==
    /\ task[n].pc = "voting"
    /\ k \in task[n].pending \ Loaded(task[n])
    /\ UNCHANGED <<used, returned, built>>
    /\ LET vote == HandleVote(node[k], VoteRequest(node[n]))
       IN  /\ ~vote.panic
           /\ node' = [node EXCEPT ![k] = vote.node,
                                   ![n] = SetAvailable(@, k, TRUE)]
           /\ task' = [task EXCEPT ![n] =
                         [Received(@, vote) EXCEPT !.loaded = @ \cup
                            {[peer |-> k,
                              VoteGranted |-> vote.VoteGranted,
                              Term |-> vote.Term,
                              Node |-> vote.Node,
                              numVotes |-> task[n].numVotes,
                              maxTermSeen |-> task[n].maxTermSeen]}]]

\* TallyStore is the goroutine's write, from the value it read, and its
\* wg.Done()
TallyStore(n, k) ==
    /\ task[n].pc = "voting"
    /\ UNCHANGED <<node, used, returned, built>>
    /\ \E l \in task[n].loaded :
          /\ l.peer = k
          /\ task' = [task EXCEPT ![n] =
                        PeerDone(
                          [(IF l.VoteGranted
                            THEN [@ EXCEPT !.numVotes = l.numVotes + 1]
                            ELSE IF l.Term > l.maxTermSeen
                            THEN [@ EXCEPT !.maxTermSeen = l.Term,
                                           !.maxTermSeenSource = l.Node]
                            ELSE @) EXCEPT !.loaded = @ \ {l}], k)]

\* lines 503-518: the election is won
BecomeLeader(nd) ==
    [nd EXCEPT !.State = "Leader",
               !.AllowVote = FALSE,
               !.otherNodes = [k \in DOMAIN @ |->
                                 [@[k] EXCEPT !.MatchIndex = -1,
                                              !.NextIndex = Len(nd.Log)]]]

\* lines 487-496 and 503-522: after wg.Wait(), compare the tally with the
\* majority; a lost election that saw a higher term goes on to line 500
ElectionJoin(n) ==
    /\ task[n].pc = "voting"
    /\ task[n].pending = {}
    /\ UNCHANGED <<used, returned, built>>
    /\ IF task[n].numVotes < ElectionMajority(node[n]) THEN
          /\ UNCHANGED node
          /\ task' = [task EXCEPT ![n] =
                        IF task[n].maxTermSeen > node[n].Term
                        THEN [pc |-> "raise",
                              maxTermSeen |-> task[n].maxTermSeen,
                              maxTermSeenSource |-> task[n].maxTermSeenSource]
                        ELSE Idle]
       ELSE
          /\ node' = [node EXCEPT ![n] = BecomeLeader(@)]
          /\ task' = [task EXCEPT ![n] = Idle]

\* line 500: n.SetTerm(maxTermSeen, maxTermSeenSource)
ElectionRaise(n) ==
    /\ task[n].pc = "raise"
    /\ node' = [node EXCEPT ![n] =
                  SetTerm(@, task[n].maxTermSeen, task[n].maxTermSeenSource)]
    /\ task' = [task EXCEPT ![n] = Idle]
    /\ UNCHANGED <<used, returned, built>>

\* the state manager's grace-window job: AllowVote goes back to true
GraceWindowEnds(n) ==
    /\ ~node[n].AllowVote
    /\ node' = [node EXCEPT ![n].AllowVote = TRUE]
    /\ UNCHANGED <<task, used, returned, built>>

\* ------------------------------------------------------------------ SendAppend
\* majority as SendAppend and commitRecords compute it
AppendMajority(nd) == (Cardinality(DOMAIN nd.otherNodes) \div 2) + 1

\* lines 660-693: a fresh broadcast, one goroutine per peer; expired records
\* that SendAppend was entered with a term that is not n.Term, first the
\* MatchIndex each goroutine starts from, and retried how many times the
\* goroutine's requestAppend has called itself (line 641)
Broadcast(nd, retriesRemaining, term, idx, client) ==
    [pc |-> "append",
     retriesRemaining |-> retriesRemaining,
     term |-> term,
     expired |-> term # nd.Term,
     first |-> [k \in DOMAIN nd.otherNodes |-> nd.otherNodes[k].MatchIndex],
     retried |-> [k \in DOMAIN nd.otherNodes |-> 0],
     numAppended |-> 1,
     pending |-> DOMAIN nd.otherNodes,
     idx |-> idx,
     client |-> client]

\* applyRecord without its check of n.State
applyRecordOnAnyRole(n, record) ==
    /\ task[n].pc = "idle"
    /\ LET nd == setLog(node[n], Append(node[n].Log, record))
           idx == Len(nd.Log) - 1
       IN  /\ returned' = [returned EXCEPT ![n] = NotReturned]
           /\ used' = [used EXCEPT !.writes = @ + 1]
           /\ node' = [node EXCEPT ![n] = nd]
           /\ task' = [task EXCEPT ![n] =
                         Broadcast(nd, ApplyRetries, nd.Term, idx, TRUE)]

\* lines 314-333: applyRecord up to its call of SendAppend
applyRecord(n, record) ==
    /\ task[n].pc = "idle"
    /\ IF node[n].State # "Leader" THEN
          /\ returned' = [returned EXCEPT ![n] = "ErrNotLeaderRecv"]
          /\ used' = [used EXCEPT !.refused = @ + 1]
          /\ UNCHANGED <<node, task>>
       ELSE
          LET nd == setLog(node[n], Append(node[n].Log, record))
              idx == Len(nd.Log) - 1
          IN  /\ returned' = [returned EXCEPT ![n] = NotReturned]
              /\ used' = [used EXCEPT !.writes = @ + 1]
              /\ node' = [node EXCEPT ![n] = nd]
              /\ task' = [task EXCEPT ![n] =
                            Broadcast(nd, ApplyRetries, nd.Term, idx, TRUE)]

\* applyRecord is not one step of the processor: lines 316-332 check the
\* role, write the log and read n.Term into currentTerm
applyRecordAppend(n, record) ==
    /\ task[n].pc = "idle"
    /\ node[n].State = "Leader"
    /\ LET nd == setLog(node[n], Append(node[n].Log, record))
           idx == Len(nd.Log) - 1
       IN  /\ returned' = [returned EXCEPT ![n] = NotReturned]
           /\ used' = [used EXCEPT !.writes = @ + 1]
           /\ node' = [node EXCEPT ![n] = nd]
           /\ task' = [task EXCEPT ![n] =
                         [pc |-> "send", retriesRemaining |-> ApplyRetries,
                          term |-> nd.Term, idx |-> idx, client |-> TRUE]]

\* line 333 with lines 660-693: SendAppend(3, currentTerm) is entered; it
\* looks at n.State and never at its term argument
SendAppendEnter(n) ==
    /\ task[n].pc = "send"
    /\ UNCHANGED <<node, used, built>>
    /\ IF node[n].State # "Leader" THEN
          /\ returned' = [returned EXCEPT ![n] = "ErrNotLeaderSend"]
          /\ task' = [task EXCEPT ![n] = Idle]
       ELSE
          /\ UNCHANGED returned
          /\ task' = [task EXCEPT ![n] =
                        Broadcast(node[n], task[n].retriesRemaining,
                                  task[n].term, task[n].idx, task[n].client)]

\* lines 360-365 and 377-381: the record Set and Delete build
SetRecord(nd, key, value) ==
    [Term |-> nd.Term, Action |-> "SET", Key |-> key, Value |-> value]

DeleteRecord(nd, key) ==
    [Term |-> nd.Term, Action |-> "DEL", Key |-> key, Value |-> Nil]

\* Set or Delete with nothing happening on the node between its first line
\* and applyRecord
Set(n, key, value) ==
    /\ applyRecord(n, SetRecord(node[n], key, value))
    /\ UNCHANGED built

Delete(n, key) ==
    /\ applyRecord(n, DeleteRecord(node[n], key))
    /\ UNCHANGED built

\* Set or Delete up to n.Lock() (lines 366, 382): the record is built, the
\* lock not yet taken
LockWait(n, record) ==
    /\ built[n] = NoRecord
    /\ built' = [built EXCEPT ![n] = record]
    /\ UNCHANGED <<node, task, used, returned>>

\* the lock is free and the call goes on: applyRecord(record)
LockTaken(n) ==
    /\ built[n] # NoRecord
    /\ applyRecord(n, built[n])
    /\ built' = [built EXCEPT ![n] = NoRecord]

\* the periodic append the state manager sends while the node leads
Heartbeat(n) ==
    /\ task[n].pc = "idle"
    /\ node[n].State = "Leader"
    /\ used' = [used EXCEPT !.heartbeats = @ + 1]
    /\ task' = [task EXCEPT ![n] = Broadcast(node[n], 0, node[n].Term, -1, FALSE)]
    /\ UNCHANGED <<node, returned, built>>

\* lines 593-615: the request requestAppend builds
AppendRequest(nd, host, term) ==
    LET prevLogIndex == nd.otherNodes[host].MatchIndex
    IN  [Term |-> term,
         Leader |-> nd.RaftNode,
         PrevLogIndex |-> prevLogIndex,
         PrevLogTerm |-> IF prevLogIndex >= 0 THEN At(nd.Log, prevLogIndex).Term
                         ELSE 0,
         Entries |-> SliceFrom(nd.Log, prevLogIndex + 1),
         LeaderCommit |-> nd.CommitIndex]

\* Entries[prevLogIndex+1 : idx] and Entries[prevLogIndex] are out of range
\* once the log is shorter than the peer's match index
AppendRequestPanics(nd, host) ==
    nd.otherNodes[host].MatchIndex >= Len(nd.Log)

\* requestAppend on a reply, backing off after every success=false
OnAppendReplyAlwaysBackOff(nd, host, success, idx) ==
    IF success
    THEN [nd EXCEPT !.otherNodes[host] =
                       [MatchIndex |-> idx - 1, NextIndex |-> idx,
                        Available |-> TRUE]]
    ELSE [nd EXCEPT !.otherNodes[host].MatchIndex = @ - 1]

\* lines 632-644: requestAppend on a reply
OnAppendReply(nd, host, success, idx) ==
    IF success
    THEN [nd EXCEPT !.otherNodes[host] =
                       [MatchIndex |-> idx - 1, NextIndex |-> idx,
                        Available |-> TRUE]]
    ELSE IF nd.otherNodes[host].MatchIndex > 0
         THEN [nd EXCEPT !.otherNodes[host].MatchIndex = @ - 1]
         ELSE SetAvailable(nd, host, FALSE)

\* One call of requestAppend(k, term) by a goroutine of SendAppend; after a
\* success=false reply with prevLogIndex > 0 the goroutine calls it again,
\* which is this step once more.
RequestAppend(n, k, outcome) ==
    /\ task[n].pc = "append"
    /\ k \in task[n].pending
    /\ Count(outcome)
    /\ UNCHANGED returned
    /\ IF AppendRequestPanics(node[n], k) THEN
          /\ outcome = "none"
          /\ node' = [node EXCEPT ![n] = Restarted(@)]
          /\ task' = [task EXCEPT ![n] = Idle]
          /\ built' = Surviving({n})
       ELSE IF node[n].State # "Leader" \/ task[n].term # node[n].Term THEN
          \* ErrNotLeaderSend, ErrExpiredTerm
          /\ outcome = "none"
          /\ UNCHANGED <<node, built>>
          /\ task' = [task EXCEPT ![n] = PeerDone(@, k)]
       ELSE IF outcome = "lost" THEN
          /\ node' = [node EXCEPT ![n] = SetAvailable(@, k, FALSE)]
          /\ task' = [task EXCEPT ![n] = PeerDone(@, k)]
          /\ UNCHANGED built
       ELSE
          LET req == AppendRequest(node[n], k, task[n].term)
              reply == HandleAppend(node[k], req)
              heard == outcome = "ok" /\ ~reply.panic
              again == heard /\ ~reply.Success /\ req.PrevLogIndex > 0
          IN  /\ outcome \in {"timeout", "ok"}
              /\ built' = Surviving(IF reply.panic THEN {k} ELSE {})
              /\ node' = [node EXCEPT
                            ![k] = reply.node,
                            ![n] = IF heard
                                   THEN OnAppendReply(@, k, reply.Success,
                                                      Len(node[n].Log))
                                   ELSE SetAvailable(@, k, FALSE)]
              /\ task' = [task EXCEPT
                            ![k] = IF reply.panic THEN Idle ELSE @,
                            ![n] = IF again
                                   THEN [@ EXCEPT !.retried[k] = @ + 1]
                                   ELSE PeerDone(
                                          IF heard /\ reply.Success
                                          THEN [@ EXCEPT !.numAppended = @ + 1]
                                          ELSE @, k)]

\* ---------------------------------------------------------------- commitRecords
\* number of nodes commitRecords counts as holding index i
ReplicaCount(nd, i) ==
    1 + Cardinality({k \in DOMAIN nd.otherNodes : nd.otherNodes[k].MatchIndex >= i})

RECURSIVE ScanCommit(_, _)
\* lines 545-562: walk lastIdx down from the end of the log
ScanCommit(nd, lastIdx) ==
    IF lastIdx > nd.CommitIndex
    THEN IF ReplicaCount(nd, lastIdx) >= AppendMajority(nd)
         THEN lastIdx
         ELSE ScanCommit(nd, lastIdx - 1)
    ELSE nd.CommitIndex

\* lines 567-584 read Entries[lastApplied] up to CommitIndex
commitRecordsPanics(nd) ==
    LET commit == ScanCommit(nd, Len(nd.Log) - 1)
    IN  nd.lastApplied < commit /\ commit >= Len(nd.Log)

commitRecords(nd) ==
    LET commit == ScanCommit(nd, Len(nd.Log) - 1)
    IN  IF nd.lastApplied < commit
        THEN [nd EXCEPT !.CommitIndex = commit,
                        !.lastApplied = commit,
                        !.Store = ApplyRange(@, nd.Log, nd.lastApplied + 1, commit)]
        ELSE [nd EXCEPT !.CommitIndex = commit]

\* What the Set or Delete call that runs the broadcast t on nd returns once
\* every goroutine is done: SendAppend's error (lines 695-709), else the
\* outcome of applyRecord's check of CommitIndex (lines 338-349).
\* NotReturned: SendAppend goes round again, or the process has died.
applyRecordReturns(nd, t) ==
    IF t.numAppended >= AppendMajority(nd) THEN
        IF commitRecordsPanics(nd) THEN NotReturned
        ELSE IF commitRecords(nd).CommitIndex < t.idx THEN "ErrCommitFailed"
        ELSE "nil"
    ELSE IF t.retriesRemaining > 0 THEN
        IF nd.State = "Leader" THEN NotReturned ELSE "ErrNotLeaderSend"
    ELSE "ErrAppendFailed"

\* lines 693-709: after wg.Wait(), commit on a majority, else retry or give up
SendAppendJoin(n) ==
    /\ task[n].pc = "append"
    /\ task[n].pending = {}
    /\ UNCHANGED used
    /\ built' = Surviving(IF /\ task[n].numAppended >= AppendMajority(node[n])
                             /\ commitRecordsPanics(node[n])
                          THEN {n} ELSE {})
    /\ returned' = IF task[n].client
                   THEN [returned EXCEPT
                           ![n] = applyRecordReturns(node[n], task[n])]
                   ELSE returned
    /\ IF task[n].numAppended >= AppendMajority(node[n]) THEN
          /\ node' = [node EXCEPT ![n] =
                        IF commitRecordsPanics(@) THEN Restarted(@)
                        ELSE commitRecords(@)]
          /\ task' = [task EXCEPT ![n] = Idle]
       ELSE IF task[n].retriesRemaining > 0 /\ node[n].State = "Leader" THEN
          /\ UNCHANGED node
          /\ task' = [task EXCEPT ![n] =
                        Broadcast(node[n], task[n].retriesRemaining - 1,
                                  task[n].term, task[n].idx, task[n].client)]
       ELSE
          \* ErrNotLeaderSend from the retry, or ErrAppendFailed
          /\ UNCHANGED node
          /\ task' = [task EXCEPT ![n] = Idle]

\* --------------------------------------------------------------------- restart
\* the process is killed and started again: NewNode over the files on disk
Restart(n) ==
    /\ used' = [used EXCEPT !.restarts = @ + 1]
    /\ UNCHANGED returned
    /\ built' = Surviving({n})
    /\ node' = [node EXCEPT ![n] = Restarted(@)]
    /\ task' = [task EXCEPT ![n] = Idle]

\* ---------------------------------------------------------------- the run's size
\* the DoElection and SendAppend calls in progress in the cluster
Running == {n \in Node : task[n].pc # "idle"}

\* A run stays within lim: so many elections, heartbeats, client writes,
\* restarts and lost messages, so many calls in progress at once, and terms
\* and logs no larger than lim.term and lim.log.
MayStart(lim) == Cardinality(Running) < lim.tasks
MayElect(lim) == used.elections < lim.elections /\ MayStart(lim)
MayWrite(lim) == used.writes < lim.writes /\ MayStart(lim)
MayRefuse(lim) == used.refused < lim.refusals
MayBeat(lim) == used.heartbeats < lim.heartbeats /\ MayStart(lim)
MayRestart(lim) == used.restarts < lim.restarts
MayEnd(lim, outcome) ==
    outcome \in {"lost", "timeout"} => used.faults < lim.faults

Within(lim) ==
    \A n \in Node : node'[n].Term <= lim.term /\ Len(node'[n].Log) <= lim.log

\* ledTerms records every term a node holds while its role is Leader
Led ==
    ledTerms' = [n \in Node |->
                   ledTerms[n] \cup (IF node'[n].State = "Leader"
                                     THEN {node'[n].Term} ELSE {})]

\* won records the term a DoElection call was started for (line 433) when
\* the call finds its tally at the majority (lines 503-508) with n.Term
\* still that term
Winning ==
    won' = [n \in Node |->
              won[n] \cup (IF /\ task[n].pc = "voting"
                              /\ task'[n] = Idle
                              /\ node'[n] = BecomeLeader(node[n])
                              /\ task[n].pending = {}
                              /\ task[n].numVotes >= ElectionMajority(node[n])
                              /\ task[n].started = node[n].Term
                           THEN {task[n].started} ELSE {})]

\* the indices from..to in ascending order
IndexRange(from, to) == [i \in 1..(to - from + 1) |-> from + i - 1]

\* The indices whose entries a step applies that takes a node from old to
\* new: commitRecords walks lastApplied up to CommitIndex (lines 567-584),
\* applyCommittedLogs walks CommitIndex itself (lines 966-976).
AppliedBy(old, new) ==
    IF new.lastApplied > old.lastApplied
    THEN IndexRange(old.lastApplied + 1, new.lastApplied)
    ELSE IF new.CommitIndex > old.CommitIndex
    THEN IndexRange(old.CommitIndex + 1, new.CommitIndex)
    ELSE << >>

\* applied records the Store calls of each process. Within one process
\* CommitIndex never goes down; NewNode starts it at -1 over an empty store,
\* so a CommitIndex that went down is a process that was started again.
Applying ==
    applied' = [n \in Node |->
                  IF node'[n].CommitIndex < node[n].CommitIndex
                  THEN << >>
                  ELSE applied[n] \o AppliedBy(node[n], node'[n])]

\* t is applyRecord at work for Set or Delete, after its append
InApplyRecord(t) == t.pc \in {"send", "append"} /\ t.client

\* appended records the argument of the applyRecord call at work on each node
\* from the append at line 324 to the return
Appending ==
    appended' = [n \in Node |->
                   IF ~InApplyRecord(task'[n]) THEN NoRecord
                   ELSE IF InApplyRecord(task[n]) THEN appended[n]
                   ELSE node'[n].Log[Len(node'[n].Log)]]

\* ------------------------------------------------------- the steps of a run
Bounded(lim) == Within(lim) /\ Led /\ Winning /\ Applying /\ Appending

Elect(lim) ==
    \E n \in Node : MayElect(lim) /\ DoElection(n) /\ Bounded(lim)

Vote(lim) ==
    \E n \in Node : \E k \in Node : \E o \in RpcOutcomes :
        MayEnd(lim, o) /\ RequestVote(n, k, o) /\ Bounded(lim)

Join(lim) ==
    \E n \in Node : ElectionJoin(n) /\ Bounded(lim)

Raise(lim) ==
    \E n \in Node : ElectionRaise(n) /\ Bounded(lim)

ReadTally(lim) ==
    \E n \in Node : \E k \in Node : TallyLoad(n, k) /\ Bounded(lim)

WriteTally(lim) ==
    \E n \in Node : \E k \in Node : TallyStore(n, k) /\ Bounded(lim)

Grace(lim) ==
    \E n \in Node : GraceWindowEnds(n) /\ Bounded(lim)

ClientSet(lim) ==
    \E n \in Node : \E key \in Keys : \E value \in Values :
        /\ IF node[n].State = "Leader" THEN MayWrite(lim) ELSE MayRefuse(lim)
        /\ Set(n, key, value)
        /\ Bounded(lim)

ClientDelete(lim) ==
    \E n \in Node : \E key \in Keys :
        /\ IF node[n].State = "Leader" THEN MayWrite(lim) ELSE MayRefuse(lim)
        /\ Delete(n, key)
        /\ Bounded(lim)

ClientAppend(lim) ==
    \E n \in Node : \E key \in Keys : \E value \in Values :
        /\ MayWrite(lim)
        /\ applyRecordAppend(n, SetRecord(node[n], key, value))
        /\ UNCHANGED built
        /\ Bounded(lim)

\* the nodes with a call at the lock
Waiting == {n \in Node : built[n] # NoRecord}

\* a Set or a Delete call arrives at the lock
ClientWait(lim) ==
    \E n \in Node : \E key \in Keys : \E value \in Values :
        /\ used.writes + used.refused + Cardinality(Waiting)
              < lim.writes + lim.refusals
        /\ \/ LockWait(n, SetRecord(node[n], key, value))
           \/ LockWait(n, DeleteRecord(node[n], key))
        /\ Bounded(lim)

ClientLocked(lim) ==
    \E n \in Node :
        /\ IF node[n].State = "Leader" THEN MayWrite(lim) ELSE MayRefuse(lim)
        /\ LockTaken(n)
        /\ Bounded(lim)

Enter(lim) ==
    \E n \in Node : SendAppendEnter(n) /\ Bounded(lim)

Beat(lim) ==
    \E n \in Node : MayBeat(lim) /\ Heartbeat(n) /\ Bounded(lim)

Replicate(lim) ==
    \E n \in Node : \E k \in Node : \E o \in Outcomes :
        MayEnd(lim, o) /\ RequestAppend(n, k, o) /\ Bounded(lim)

Settle(lim) ==
    \E n \in Node : SendAppendJoin(n) /\ Bounded(lim)

Crash(lim) ==
    \E n \in Node : MayRestart(lim) /\ Restart(n) /\ Bounded(lim)

\* ------------------------------------------------------------------------ Spec
\* The whole program on a cluster where every node lists every other; one
\* DoElection or SendAppend call at a time.
MaxElections == 2
MaxFaults == 1
MaxHeartbeats == 1
MaxWrites == 1
MaxRestarts == 1
MaxTasks == 1
MaxTerm == 2
MaxLog == 2

Limits ==
    [elections |-> MaxElections, faults |-> MaxFaults,
     heartbeats |-> MaxHeartbeats, writes |-> MaxWrites,
     restarts |-> MaxRestarts, refusals |-> 0, tasks |-> MaxTasks,
     term |-> MaxTerm, log |-> MaxLog]

Init == InitWith(FullConfig)

Next ==
    \/ Elect(Limits)
    \/ Vote(Limits)
    \/ Join(Limits)
    \/ Raise(Limits)
    \/ Grace(Limits)
    \/ ClientSet(Limits)
    \/ ClientDelete(Limits)
    \/ Beat(Limits)
    \/ Replicate(Limits)
    \/ Settle(Limits)
    \/ Crash(Limits)

Spec == Init /\ [][Next]_vars

\* ------------------------------------------------------------------- SpecPair
\* The whole program on the cluster with an outsider: the members form a
\* cluster of even size, and the outsider's requests come from an unknown peer.
PairMaxElections == 3
PairMaxFaults == 1
PairMaxHeartbeats == 1
PairMaxWrites == 2
PairMaxRestarts == 1
PairMaxTerm == 2
PairMaxLog == 2

PairLimits ==
    [elections |-> PairMaxElections, faults |-> PairMaxFaults,
     heartbeats |-> PairMaxHeartbeats, writes |-> PairMaxWrites,
     restarts |-> PairMaxRestarts, refusals |-> 0, tasks |-> MaxTasks,
     term |-> PairMaxTerm, log |-> PairMaxLog]

NextPair ==
    \/ Elect(PairLimits)
    \/ Vote(PairLimits)
    \/ Join(PairLimits)
    \/ Raise(PairLimits)
    \/ Grace(PairLimits)
    \/ ClientSet(PairLimits)
    \/ ClientDelete(PairLimits)
    \/ Beat(PairLimits)
    \/ Replicate(PairLimits)
    \/ Settle(PairLimits)
    \/ Crash(PairLimits)

SpecPair == InitWith(OutsiderConfig) /\ [][NextPair]_vars

\* ------------------------------------------------------------ SpecReplication
\* Elections and replication without process restarts, with room for two
\* log entries and a change of leader between them.
ReplicationMaxElections == 2
ReplicationMaxFaults == 1
ReplicationMaxHeartbeats == 1
ReplicationMaxWrites == 2
ReplicationMaxTerm == 2
ReplicationMaxLog == 2

ReplicationLimits ==
    [elections |-> ReplicationMaxElections, faults |-> ReplicationMaxFaults,
     heartbeats |-> ReplicationMaxHeartbeats, writes |-> ReplicationMaxWrites,
     restarts |-> 0, refusals |-> 0, tasks |-> MaxTasks,
     term |-> ReplicationMaxTerm, log |-> ReplicationMaxLog]

NextReplication ==
    \/ Elect(ReplicationLimits)
    \/ Vote(ReplicationLimits)
    \/ Join(ReplicationLimits)
    \/ Raise(ReplicationLimits)
    \/ Grace(ReplicationLimits)
    \/ ClientSet(ReplicationLimits)
    \/ ClientDelete(ReplicationLimits)
    \/ Beat(ReplicationLimits)
    \/ Replicate(ReplicationLimits)
    \/ Settle(ReplicationLimits)

SpecReplication == InitWith(FullConfig) /\ [][NextReplication]_vars

\* --------------------------------------------------------------- SpecElection
\* Elections only, with DoElection calls of different nodes in progress at
\* the same time.
ElectionMaxElections == 4
ElectionMaxFaults == 1
ElectionMaxTasks == 2
ElectionMaxTerm == 3

ElectionLimits ==
    [elections |-> ElectionMaxElections, faults |-> ElectionMaxFaults,
     heartbeats |-> 0, writes |-> 0, restarts |-> 0, refusals |-> 0,
     tasks |-> ElectionMaxTasks, term |-> ElectionMaxTerm, log |-> 0]

NextElection ==
    \/ Elect(ElectionLimits)
    \/ Vote(ElectionLimits)
    \/ Join(ElectionLimits)
    \/ Raise(ElectionLimits)
    \/ Grace(ElectionLimits)

SpecElection == InitWith(FullConfig) /\ [][NextElection]_vars

\* --------------------------------------------------------------- SpecReliable
\* Elections and client writes on a network that loses nothing.
ReliableMaxElections == 3
ReliableMaxWrites == 2
ReliableMaxTerm == 3
ReliableMaxLog == 1

ReliableLimits ==
    [elections |-> ReliableMaxElections, faults |-> 0,
     heartbeats |-> 0, writes |-> ReliableMaxWrites, restarts |-> 0,
     refusals |-> 0,
     tasks |-> MaxTasks, term |-> ReliableMaxTerm, log |-> ReliableMaxLog]

NextReliable ==
    \/ Elect(ReliableLimits)
    \/ Vote(ReliableLimits)
    \/ Join(ReliableLimits)
    \/ Raise(ReliableLimits)
    \/ ClientSet(ReliableLimits)
    \/ ClientDelete(ReliableLimits)
    \/ Replicate(ReliableLimits)
    \/ Settle(ReliableLimits)

SpecReliable == InitWith(FullConfig) /\ [][NextReliable]_vars

\* ------------------------------------------------------------------ SpecStale
\* A leader that misses the messages of its successor and keeps sending.
StaleMaxElections == 2
StaleMaxFaults == 2
StaleMaxHeartbeats == 2
StaleMaxWrites == 2
StaleMaxTerm == 2
StaleMaxLog == 2

StaleLimits ==
    [elections |-> StaleMaxElections, faults |-> StaleMaxFaults,
     heartbeats |-> StaleMaxHeartbeats, writes |-> StaleMaxWrites,
     restarts |-> 0, refusals |-> 0, tasks |-> MaxTasks,
     term |-> StaleMaxTerm, log |-> StaleMaxLog]

NextStale ==
    \/ Elect(StaleLimits)
    \/ Vote(StaleLimits)
    \/ Join(StaleLimits)
    \/ Raise(StaleLimits)
    \/ ClientSet(StaleLimits)
    \/ Beat(StaleLimits)
    \/ Replicate(StaleLimits)
    \/ Settle(StaleLimits)

SpecStale == InitWith(FullConfig) /\ [][NextStale]_vars

\* ----------------------------------------------------------------- SpecClient
\* Client calls on leaders and on followers on a network that loses nothing,
\* with an election of another node able to run while a write is being
\* replicated.
ClientMaxElections == 2
ClientMaxWrites == 2
ClientMaxRefusals == 1
ClientMaxTasks == 2
ClientMaxTerm == 2
ClientMaxLog == 1

ClientLimits ==
    [elections |-> ClientMaxElections, faults |-> 0,
     heartbeats |-> 0, writes |-> ClientMaxWrites, restarts |-> 0,
     refusals |-> ClientMaxRefusals, tasks |-> ClientMaxTasks,
     term |-> ClientMaxTerm, log |-> ClientMaxLog]

NextClient ==
    \/ Elect(ClientLimits)
    \/ Vote(ClientLimits)
    \/ Join(ClientLimits)
    \/ Raise(ClientLimits)
    \/ Grace(ClientLimits)
    \/ ClientSet(ClientLimits)
    \/ ClientDelete(ClientLimits)
    \/ Replicate(ClientLimits)
    \/ Settle(ClientLimits)

SpecClient == InitWith(FullConfig) /\ [][NextClient]_vars

\* ------------------------------------------------------------------ SpecTally
\* Elections in which the goroutines of one DoElection call run side by
\* side: each reads the shared tally and writes it back in two steps.
TallyMaxElections == 3
TallyMaxFaults == 1
TallyMaxTasks == 2
TallyMaxTerm == 3

TallyLimits ==
    [elections |-> TallyMaxElections, faults |-> TallyMaxFaults,
     heartbeats |-> 0, writes |-> 0, restarts |-> 0, refusals |-> 0,
     tasks |-> TallyMaxTasks, term |-> TallyMaxTerm, log |-> 0]

NextTally ==
    \/ Elect(TallyLimits)
    \/ Vote(TallyLimits)
    \/ ReadTally(TallyLimits)
    \/ WriteTally(TallyLimits)
    \/ Join(TallyLimits)
    \/ Raise(TallyLimits)
    \/ Grace(TallyLimits)

SpecTally == InitWith(FullConfig) /\ [][NextTally]_vars

\* ---------------------------------------------------------------- SpecExpired
\* A client write on the cluster with an outsider, where requests of other
\* nodes can arrive between applyRecord's read of n.Term and its call of
\* SendAppend.
ExpiredMaxElections == 3
ExpiredMaxWrites == 1
ExpiredMaxTasks == 2
ExpiredMaxTerm == 2
ExpiredMaxLog == 1

ExpiredLimits ==
    [elections |-> ExpiredMaxElections, faults |-> 0,
     heartbeats |-> 0, writes |-> ExpiredMaxWrites, restarts |-> 0,
     refusals |-> 0, tasks |-> ExpiredMaxTasks,
     term |-> ExpiredMaxTerm, log |-> ExpiredMaxLog]

NextExpired ==
    \/ Elect(ExpiredLimits)
    \/ Vote(ExpiredLimits)
    \/ Join(ExpiredLimits)
    \/ Raise(ExpiredLimits)
    \/ Grace(ExpiredLimits)
    \/ ClientAppend(ExpiredLimits)
    \/ Enter(ExpiredLimits)
    \/ Replicate(ExpiredLimits)
    \/ Settle(ExpiredLimits)

SpecExpired == InitWith(OutsiderConfig) /\ [][NextExpired]_vars

\* ------------------------------------------------------------------- SpecLock
\* Set and Delete calls that build their record, wait for the node lock and
\* go on after elections have run on the cluster. No message is lost and
\* no term above LockMaxTerm is taken, so no election ends on a higher term
\* seen in a reply.
LockMaxElections == 2
LockMaxWrites == 2
LockMaxRefusals == 0
LockMaxTasks == 1
LockMaxTerm == 2
LockMaxLog == 2

LockLimits ==
    [elections |-> LockMaxElections, faults |-> 0,
     heartbeats |-> 0, writes |-> LockMaxWrites, restarts |-> 0,
     refusals |-> LockMaxRefusals, tasks |-> LockMaxTasks,
     term |-> LockMaxTerm, log |-> LockMaxLog]

NextLock ==
    \/ Elect(LockLimits)
    \/ Vote(LockLimits)
    \/ Join(LockLimits)
    \/ Grace(LockLimits)
    \/ ClientWait(LockLimits)
    \/ ClientLocked(LockLimits)
    \/ Replicate(LockLimits)
    \/ Settle(LockLimits)

SpecLock == InitWith(FullConfig) /\ [][NextLock]_vars

\* ---------------------------------------------------------------- SpecBackOff
\* A stale leader with three entries acknowledged by a peer that has since
\* moved to a higher term: requestAppend backs off more than once.
BackOffMaxElections == 2
BackOffMaxFaults == 2
BackOffMaxHeartbeats == 2
BackOffMaxWrites == 3
BackOffMaxTerm == 2
BackOffMaxLog == 3

BackOffLimits ==
    [elections |-> BackOffMaxElections, faults |-> BackOffMaxFaults,
     heartbeats |-> BackOffMaxHeartbeats, writes |-> BackOffMaxWrites,
     restarts |-> 0, refusals |-> 0, tasks |-> MaxTasks,
     term |-> BackOffMaxTerm, log |-> BackOffMaxLog]

NextBackOff ==
    \/ Elect(BackOffLimits)
    \/ Vote(BackOffLimits)
    \/ Join(BackOffLimits)
    \/ Raise(BackOffLimits)
    \/ ClientSet(BackOffLimits)
    \/ Beat(BackOffLimits)
    \/ Replicate(BackOffLimits)
    \/ Settle(BackOffLimits)

SpecBackOff == InitWith(FullConfig) /\ [][NextBackOff]_vars

\* ------------------------------------------------------------------ SpecAdopt
\* Elections and heartbeats where a node misses the election of its leader
\* and learns the term from the replies to its own vote requests.
AdoptMaxElections == 3
AdoptMaxFaults == 2
AdoptMaxHeartbeats == 1
AdoptMaxTerm == 2

AdoptLimits ==
    [elections |-> AdoptMaxElections, faults |-> AdoptMaxFaults,
     heartbeats |-> AdoptMaxHeartbeats, writes |-> 0, restarts |-> 0,
     refusals |-> 0, tasks |-> MaxTasks, term |-> AdoptMaxTerm, log |-> 0]

NextAdopt ==
    \/ Elect(AdoptLimits)
    \/ Vote(AdoptLimits)
    \/ Join(AdoptLimits)
    \/ Raise(AdoptLimits)
    \/ Grace(AdoptLimits)
    \/ Beat(AdoptLimits)
    \/ Replicate(AdoptLimits)
    \/ Settle(AdoptLimits)

SpecAdopt == InitWith(FullConfig) /\ [][NextAdopt]_vars

\* =================================================================== claims
TermRecordOf(nd) == [Term |-> nd.Term, VotedFor |-> nd.votedFor]

\* C1: at most one leader per term -- no two distinct nodes are, or have
\* been, in role Leader while holding the same term.
OneLeaderPerTerm ==
    \A a \in Node : \A b \in Node :
        a # b => ledTerms[a] \cap ledTerms[b] = {}

\* C2: a node's term never decreases -- every step, including the steps of
\* operations that run concurrently on one node, leaves each node's term
\* greater than or equal to what it was.
TermNeverDecreases ==
    [][\A n \in Node : node'[n].Term >= node[n].Term]_vars

\* C3: log matching -- when two nodes' logs hold entries with the same term
\* at index i, the two logs are identical from index 0 through i.
LogMatching ==
    \A a \in Node : \A b \in Node :
        \A i \in 0..(Len(node[a].Log) - 1) :
            (InRange(node[b].Log, i)
               /\ At(node[a].Log, i).Term = At(node[b].Log, i).Term)
            => SliceTo(node[a].Log, i + 1) = SliceTo(node[b].Log, i + 1)

\* C4: after every handler, last_applied <= commit_index < len(log) on
\* every node; in particular a HandleAppend that truncates the log never
\* leaves commit_index at or past the end of the log.
CommitIndexInsideLog ==
    \A n \in Node :
        /\ node[n].lastApplied <= node[n].CommitIndex
        /\ node[n].CommitIndex < Len(node[n].Log)

\* the step is the commit section of SendAppend on n and moves its commit index
LeaderCommits(n) ==
    SendAppendJoin(n) /\ node'[n].CommitIndex > node[n].CommitIndex

\* floor(N/2)+1 for the cluster of N nodes that nd is configured with
Quorum(nd) == ((Cardinality(nd.NodeIds) + 1) \div 2) + 1

\* C5: the leader only advances commit_index to an index held by at least
\* floor(N/2)+1 nodes (itself plus the peers whose match_index reaches it),
\* N counting the leader, for even and odd cluster sizes.
CommitNeedsQuorum ==
    [][\A n \in Node :
          LeaderCommits(n) =>
             ReplicaCount(node[n], node'[n].CommitIndex) >= Quorum(node[n])]_vars

\* C6: the leader only advances commit_index to an index whose entry carries
\* the leader's current term.
CommitOnlyCurrentTerm ==
    [][\A n \in Node :
          LeaderCommits(n) =>
             At(node[n].Log, node'[n].CommitIndex).Term = node[n].Term]_vars

\* C7: persist before reply -- whenever a handler has replied, the term
\* record on disk equals the in-memory (term, voted_for) and the log on disk
\* equals the in-memory log, so that a restart reloads exactly these.
PersistBeforeReply ==
    \A n \in Node :
        /\ node[n].TermFile = TermRecordOf(node[n])
        /\ node[n].LogFile = node[n].Log
        /\ TermRecordOf(Restarted(node[n])) = TermRecordOf(node[n])
        /\ Restarted(node[n]).Log = node[n].Log

\* a node that granted a vote or accepted a leader, took entries, and has
\* since been started again from its files
ReloadedAfterReply ==
    \E n \in Node :
        /\ used.restarts > 0
        /\ node[n].Reset = 0
        /\ node[n].votedFor \notin {Nil, n}
        /\ Len(node[n].Log) > 0
        /\ node[n].Term > 0

\* the step delivers n's vote request to k, whose HandleVote runs
VoteHandled(n, k) ==
    \E o \in {"timeout", "ok"} : RequestVote(n, k, o)

\* the conditions under which the vote is to be granted
GrantConditions(nd, req) ==
    /\ req.Term > nd.Term
    /\ req.Candidate \in nd.NodeIds
    /\ \/ req.LastLogIndex > nd.CommitIndex
       \/ (req.LastLogIndex = -1 /\ nd.CommitIndex = -1)
       \/ (req.LastLogIndex = nd.CommitIndex
             /\ InRange(nd.Log, req.LastLogIndex)
             /\ req.LastLogTerm = At(nd.Log, req.LastLogIndex).Term)
    /\ nd.AllowVote

\* C8: HandleVote grants exactly when req.term > term, the candidate is a
\* known peer, its log passes the up-to-date predicate and allow_vote holds;
\* a grant leaves term = req.term, voted_for = candidate, role = Follower, a
\* reset signal sent, and the reply carries req.term.
VoteGrantRule ==
    [][\A n \in Node : \A k \in Node :
          VoteHandled(n, k) =>
             LET req == VoteRequest(node[n])
                 vote == HandleVote(node[k], req)
             IN  /\ vote.VoteGranted <=> GrantConditions(node[k], req)
                 /\ vote.VoteGranted =>
                       /\ node'[k].Term = req.Term
                       /\ node'[k].votedFor = n
                       /\ node'[k].State = "Follower"
                       /\ node'[k].Reset = Min(node[k].Reset + 1, MaxResetSignals)
                       /\ vote.Term = req.Term]_vars

\* a candidate holds the vote a peer has just granted it
VoteJustGranted ==
    \E n \in Node : \E k \in Node :
        /\ task[n].pc = "voting"
        /\ k \in DOMAIN node[n].otherNodes
        /\ k \notin task[n].pending
        /\ task[n].numVotes >= 2
        /\ node[k].votedFor = n
        /\ node[k].Term = node[n].Term
        /\ node[k].State = "Follower"
        /\ node[k].Reset > 0

\* term, voted_for, role, log, commit_index and the term file are the same
SameVoterState(a, b) ==
    /\ a.Term = b.Term
    /\ a.votedFor = b.votedFor
    /\ a.State = b.State
    /\ a.Log = b.Log
    /\ a.CommitIndex = b.CommitIndex
    /\ a.TermFile = b.TermFile

\* C9: a HandleVote that does not grant leaves term, voted_for, role, log,
\* commit_index and the term file as they were, except that a Leader asked
\* at its own term moves to term+1 with voted_for = self, persisted, and
\* stays Leader.
DeniedVoteFrame ==
    [][\A n \in Node : \A k \in Node :
          LET req == VoteRequest(node[n])
          IN  (VoteHandled(n, k) /\ ~HandleVote(node[k], req).VoteGranted) =>
                 IF req.Term = node[k].Term /\ node[k].State = "Leader"
                 THEN SameVoterState(node'[k],
                                     SetTerm(node[k], node[k].Term + 1, k))
                 ELSE SameVoterState(node'[k], node[k])]_vars

\* the step delivers an append request of n to k, whose HandleAppend runs
AppendHandled(n, k) ==
    \E o \in {"timeout", "ok"} : RequestAppend(n, k, o)

\* C10: HandleAppend replies success=true exactly when the request is valid
\* (req.term > term, or req.term = term from the node voted for) and
\* check_previous holds; an invalid request gets success=false and changes
\* none of term, voted_for, role, log, commit_index.
AppendReplyRule ==
    [][\A n \in Node : \A k \in Node :
          AppendHandled(n, k) =>
             LET req == AppendRequest(node[n], k, task[n].term)
                 reply == HandleAppend(node[k], req)
                 valid == \/ req.Term > node[k].Term
                          \/ (req.Term = node[k].Term
                                /\ req.Leader = node[k].votedFor)
                 previous == \/ req.PrevLogIndex < 0
                             \/ (req.PrevLogIndex < Len(node[k].Log)
                                   /\ At(node[k].Log, req.PrevLogIndex).Term
                                        = req.PrevLogTerm)
                 replied == ~reply.panic
             IN  /\ (replied /\ reply.Success) <=> (valid /\ previous)
                 /\ ~valid =>
                       /\ replied
                       /\ node'[k].Term = node[k].Term
                       /\ node'[k].votedFor = node[k].votedFor
                       /\ node'[k].State = node[k].State
                       /\ node'[k].Log = node[k].Log
                       /\ node'[k].CommitIndex = node[k].CommitIndex]_vars

\* the request is valid in the sense of HandleAppend's contract
AppendValid(nd, req) ==
    \/ req.Term > nd.Term
    \/ (req.Term = nd.Term /\ req.Leader = nd.votedFor)

\* the log holds an entry of term prev_log_term at prev_log_index
PreviousHolds(nd, req) ==
    \/ req.PrevLogIndex < 0
    \/ (req.PrevLogIndex < Len(nd.Log)
          /\ At(nd.Log, req.PrevLogIndex).Term = req.PrevLogTerm)

\* C11: log reconciliation -- after a valid, matched HandleAppend with
\* non-empty entries the follower's log, in memory and on disk, is its old
\* log[0..prev_log_index] followed by req.entries.
LogReconciled ==
    [][\A n \in Node : \A k \in Node :
          AppendHandled(n, k) =>
             LET req == AppendRequest(node[n], k, task[n].term)
                 expected == SliceTo(node[k].Log, req.PrevLogIndex + 1)
                                \o req.Entries
             IN  (/\ AppendValid(node[k], req)
                  /\ PreviousHolds(node[k], req)
                  /\ Len(req.Entries) > 0) =>
                    /\ node'[k].Log = expected
                    /\ node'[k].LogFile = expected]_vars

\* C12: on any one node, between two starts of its process, the log indices
\* applied to the store are 0, 1, 2, ... in this order: none skipped, none
\* applied twice, whether the node applied them as follower or as leader.
AppliedInIndexOrder ==
    \A n \in Node :
        \A i \in 1..Len(applied[n]) : applied[n][i] = i - 1

\* the store a process holds once it has applied entries 0..upTo of its log
StoreUpTo(nd, upTo) ==
    ApplyRange([key \in Keys |-> Nil], nd.Log, 0, upTo)

\* C13: when a follower's HandleAppend succeeds with leader_commit greater
\* than its commit_index, then on return commit_index is the new commit
\* point, last_applied equals commit_index, and the store reflects every
\* entry up to commit_index.
FollowerCommitApplied ==
    [][\A n \in Node : \A k \in Node :
          AppendHandled(n, k) =>
             LET req == AppendRequest(node[n], k, task[n].term)
                 reply == HandleAppend(node[k], req)
             IN  (reply.Success /\ req.LeaderCommit > node[k].CommitIndex) =>
                    /\ node'[k].CommitIndex
                          = Min(req.LeaderCommit, Len(node'[k].Log) - 1)
                    /\ node'[k].lastApplied = node'[k].CommitIndex
                    /\ node'[k].Store
                          = StoreUpTo(node'[k], node'[k].CommitIndex)]_vars

\* the step is a Set or Delete call on n
ClientCalls(n) ==
    \/ \E key \in Keys : \E value \in Values : Set(n, key, value)
    \/ \E key \in Keys : Delete(n, key)

\* C14: Set and Delete on a node whose role is not Leader fail with the
\* not-leader error, leave log (memory and disk), term, voted_for,
\* commit_index, last_applied, peer state and the store unchanged, and start
\* no broadcast.
NotLeaderRefused ==
    [][\A n \in Node :
          (node[n].State # "Leader" /\ ClientCalls(n)) =>
             /\ returned'[n] = "ErrNotLeaderRecv"
             /\ node' = node
             /\ task' = task
             /\ applied' = applied]_vars

\* a follower that holds a term, a vote and a log has refused a client call
FollowerRefused ==
    \E n \in Node :
        /\ returned[n] = "ErrNotLeaderRecv"
        /\ used.refused > 0
        /\ node[n].State = "Follower"
        /\ node[n].votedFor \notin {Nil, n}
        /\ Len(node[n].Log) > 0

\* the step is the return of the Set or Delete call on n with error err
ClientReturns(n, err) ==
    /\ SendAppendJoin(n)
    /\ task[n].client
    /\ applyRecordReturns(node[n], task[n]) = err

\* C15: when Set or Delete returns nil, the record it appended at index idx
\* is in the log with commit_index >= idx and last_applied >= idx (the write
\* has been applied to the store); when replication reached the threshold
\* but commit_index < idx the call returns CommitFailed instead.
NilMeansApplied ==
    [][\A n \in Node :
          /\ ClientReturns(n, "nil") =>
                /\ node'[n].CommitIndex >= task[n].idx
                /\ node'[n].lastApplied >= task[n].idx
                /\ InRange(node'[n].Log, task[n].idx)
                /\ At(node'[n].Log, task[n].idx).Term = task[n].term
          /\ (/\ SendAppendJoin(n)
              /\ task[n].client
              /\ task[n].numAppended >= AppendMajority(node[n])
              /\ ~commitRecordsPanics(node[n])
              /\ node'[n].CommitIndex < task[n].idx) =>
                returned'[n] = "ErrCommitFailed"]_vars

\* C16: RedirectLeader returns the client address of voted_for when the
\* node is not Leader, and the empty string when the node is Leader and when
\* voted_for is unset.
RedirectsToLeader ==
    \A n \in Node :
        RedirectLeader(node[n]) =
            IF node[n].State = "Leader" \/ node[n].votedFor = Nil
            THEN NoAddress
            ELSE ClientAddr(node[n].votedFor)

\* n is inside Set or Delete, between n.Lock() and the deferred n.Unlock()
InsideWrite(n) == task[n].pc = "append" /\ task[n].client

\* n is inside DoElection
InsideElection(n) == task[n].pc \in {"voting", "raise"}

\* the step runs HandleVote or HandleAppend on k, and the handler changes
\* term, voted_for, role, log, commit_index or the peer state of k
HandlerMutates(k) ==
    /\ \E n \in Node : VoteHandled(n, k) \/ AppendHandled(n, k)
    /\ node'[k] # node[k]

\* C17: mutations happen under the node lock -- no HandleVote or
\* HandleAppend changes a node while a Set or Delete of that node is in its
\* append+replicate+commit section, nor while a DoElection of that node is
\* in progress.
HandlersExcluded ==
    [][\A k \in Node :
          (InsideWrite(k) \/ InsideElection(k)) => ~HandlerMutates(k)]_vars

\* C18: whenever prev_log_index >= len(log), for valid and for invalid
\* requests, check_previous is false and HandleAppend replies success=false
\* without failing.
PreviousBeyondLogDenied ==
    [][\A n \in Node : \A k \in Node :
          AppendHandled(n, k) =>
             LET req == AppendRequest(node[n], k, task[n].term)
                 reply == HandleAppend(node[k], req)
             IN  (/\ req.PrevLogIndex >= Len(node[k].Log)
                  /\ ~validateAppendPanics(node[k], req.Term, req.Leader)) =>
                    /\ ~reply.panic
                    /\ ~reply.Success
                    /\ ~checkPreviousPanics(node[k], req.PrevLogIndex,
                                            req.PrevLogTerm)
                    /\ ~checkPrevious(node[k], req.PrevLogIndex,
                                      req.PrevLogTerm)]_vars

\* C19: leader step-down on a higher term -- whenever HandleVote or
\* HandleAppend on a Leader processes a request whose term is strictly
\* greater than the node's term, the node's role is Follower when the handler
\* returns, whether or not the vote is granted.
LeaderStepsDown ==
    [][\A n \in Node : \A k \in Node :
          /\ (/\ VoteHandled(n, k)
              /\ node[k].State = "Leader"
              /\ VoteRequest(node[n]).Term > node[k].Term)
                => node'[k].State = "Follower"
          /\ (/\ AppendHandled(n, k)
              /\ node[k].State = "Leader"
              /\ task[n].term > node[k].Term)
                => node'[k].State = "Follower"]_vars

\* C20: DoElection ends as Leader exactly when 1 + the number of granted
\* votes reaches floor((len(peers)+1)/2)+1; otherwise the node's role on
\* return is Follower, whatever its role was when the election started, and
\* its term is max_term_seen if a reply reported a higher term.
ElectionOutcome ==
    [][\A n \in Node :
          LET needed == ((Cardinality(DOMAIN node[n].otherNodes) + 1) \div 2) + 1
          IN  /\ ElectionJoin(n) =>
                    IF task[n].numVotes >= needed
                    THEN node'[n].State = "Leader"
                    ELSE task'[n] = Idle => node'[n].State = "Follower"
              /\ ElectionRaise(n) =>
                    /\ node'[n].State = "Follower"
                    /\ node'[n].Term = task[n].maxTermSeen]_vars

\* C21: the numVotes that DoElection compares with the majority after
\* wg.Wait() is 1 plus the number of replies with vote_granted = true, and
\* maxTermSeen is the highest term among the node's own term and the terms
\* of the denying replies, however the goroutines that handle the replies
\* interleave.
TallyAfterJoin ==
    \A n \in Node :
        (task[n].pc = "voting" /\ task[n].pending = {}) =>
           /\ task[n].numVotes = 1 + task[n].granted
           /\ task[n].maxTermSeen = task[n].maxTermReplied

\* the step enters SendAppend on n, for the first time or again from line
\* 705, while n is not Leader
EnteredNotLeader(n) ==
    /\ node[n].State # "Leader"
    /\ \/ SendAppendEnter(n)
       \/ (/\ SendAppendJoin(n)
           /\ task[n].numAppended < AppendMajority(node[n])
           /\ task[n].retriesRemaining > 0)

\* the step is the return of a SendAppend call on n that was entered with a
\* term argument other than n's term
ExpiredReturns(n) ==
    /\ SendAppendJoin(n)
    /\ task[n].expired
    /\ task'[n] = Idle

\* C22: SendAppend entered on a node that is not Leader returns
\* NotLeaderSend, and entered with a term argument other than the node's
\* term it returns ExpiredTerm; in both cases commitRecords is not called and
\* commit_index, last_applied and the store are as they were.
SendAppendPreconditions ==
    [][\A n \in Node :
          /\ EnteredNotLeader(n) =>
                /\ task[n].client => returned'[n] = "ErrNotLeaderSend"
                /\ node'[n] = node[n]
          /\ ExpiredReturns(n) =>
                /\ task[n].client => returned'[n] = "ErrExpiredTerm"
                /\ node'[n].CommitIndex = node[n].CommitIndex
                /\ node'[n].lastApplied = node[n].lastApplied
                /\ node'[n].Store = node[n].Store]_vars

\* C23: requestAppend backs off one index per success=false reply with
\* prev_log_index > 0 and calls itself again, at most (match_index at the
\* start) times; a success=true reply sets match_index = len(log)-1,
\* next_index = len(log) and marks the peer available; a success=false
\* reply with prev_log_index <= 0 ends the call with the peer marked
\* unavailable and match_index untouched; match_index never goes below -1.
BackOffTerminates ==
    [][\A n \in Node :
          /\ \A k \in DOMAIN node'[n].otherNodes :
                node'[n].otherNodes[k].MatchIndex >= -1
          /\ \A k \in Node :
                RequestAppend(n, k, "ok") =>
                   LET req == AppendRequest(node[n], k, task[n].term)
                       reply == HandleAppend(node[k], req)
                       before == node[n].otherNodes[k]
                       after == node'[n].otherNodes[k]
                   IN  ~reply.panic =>
                          IF reply.Success THEN
                             /\ after = [MatchIndex |-> Len(node[n].Log) - 1,
                                         NextIndex |-> Len(node[n].Log),
                                         Available |-> TRUE]
                             /\ k \notin task'[n].pending
                          ELSE IF req.PrevLogIndex > 0 THEN
                             /\ after.MatchIndex = before.MatchIndex - 1
                             /\ k \in task'[n].pending
                             /\ task'[n].retried[k] = task[n].retried[k] + 1
                             /\ task'[n].retried[k] <= task[n].first[k]
                          ELSE
                             /\ after.MatchIndex = before.MatchIndex
                             /\ ~after.Available
                             /\ k \notin task'[n].pending]_vars

\* a goroutine of SendAppend that started from match_index 2 has backed off
\* twice and has stopped at prev_log_index 0, the peer marked unavailable
BackedOffToZero ==
    \E n \in Node : \E k \in Node :
        /\ task[n].pc = "append"
        /\ k \in DOMAIN node[n].otherNodes
        /\ k \notin task[n].pending
        /\ task[n].first[k] = 2
        /\ task[n].retried[k] = 2
        /\ node[n].otherNodes[k].MatchIndex = 0
        /\ ~node[n].otherNodes[k].Available

\* the highest index the process of nd has applied to its store:
\* commitRecords applies up to lastApplied, applyCommittedLogs up to
\* CommitIndex
AppliedUpTo(nd) ==
    IF nd.lastApplied > nd.CommitIndex THEN nd.lastApplied ELSE nd.CommitIndex

\* some node has applied the entry that k's log holds at index i
AppliedSomewhere(k, i) ==
    /\ InRange(node[k].Log, i)
    /\ \E m \in Node :
          /\ i <= AppliedUpTo(node[m])
          /\ InRange(node[m].Log, i)
          /\ At(node[m].Log, i) = At(node[k].Log, i)

\* C24: committed entries are never lost -- no HandleAppend truncates or
\* overwrites an entry that some node has applied to its store, and any two
\* nodes that have both applied index i applied the same entry.
CommittedNeverLost ==
    [][\A k \in Node :
          /\ (\E n \in Node : AppendHandled(n, k)) =>
                \A i \in 0..(Len(node[k].Log) - 1) :
                    AppliedSomewhere(k, i) =>
                       /\ InRange(node'[k].Log, i)
                       /\ At(node'[k].Log, i) = At(node[k].Log, i)
          /\ \A a \in Node :
                \A i \in 0..Min(AppliedUpTo(node'[a]), AppliedUpTo(node'[k])) :
                    (InRange(node'[a].Log, i) /\ InRange(node'[k].Log, i)) =>
                       At(node'[a].Log, i) = At(node'[k].Log, i)]_vars

\* C25: a follower accepts its term's real leader -- when L has won the
\* election for term T and is Leader at T, and A holds term T, A's
\* HandleAppend judges L's request of term T valid; so also after A lost an
\* election and took T, and the peer that reported it as voted_for, from a
\* denying reply.
LeaderAccepted ==
    [][\A n \in Node : \A k \in Node :
          (/\ AppendHandled(n, k)
           /\ node[n].State = "Leader"
           /\ node[n].Term = task[n].term
           /\ task[n].term \in won[n]
           /\ node[k].Term = task[n].term) =>
              /\ ~validateAppendPanics(node[k], task[n].term, n)
              /\ validateAppend(node[k], task[n].term, n)]_vars

\* a step in which applyRecord, called by Set or Delete on n, appends
ClientAppended(n) ==
    /\ task[n].pc = "idle"
    /\ task'[n].pc \in {"send", "append"}
    /\ task'[n].client
    /\ Len(node'[n].Log) = Len(node[n].Log) + 1

NonDecreasing(log) ==
    \A i \in 1..Len(log) : \A j \in i..Len(log) : log[i].Term <= log[j].Term

\* C26: entry terms are consistent with the appending leader -- the record
\* Set or Delete appends carries the term the node holds at the moment of the
\* append, and the terms along a node's log never decrease with the index,
\* also when the term changed between the building of the record and the
\* taking of the node lock.
EntryTermsConsistent ==
    [][\A n \in Node :
          /\ ClientAppended(n) =>
                node'[n].Log[Len(node'[n].Log)].Term = node[n].Term
          /\ NonDecreasing(node'[n].Log)]_vars

\* the errors with which Set or Delete fails after it has appended
WriteFailures == {"ErrAppendFailed", "ErrNotLeaderSend", "ErrCommitFailed"}

\* C27: a failed client write is not rolled back -- when Set or Delete on a
\* Leader returns AppendFailed, NotLeaderSend or CommitFailed, the record it
\* appended is still in the node's log, in memory and on disk, at the index
\* where it was appended.
FailedWriteKept ==
    [][\A n \in Node : \A err \in WriteFailures :
          ClientReturns(n, err) =>
             /\ InRange(node'[n].Log, task[n].idx)
             /\ At(node'[n].Log, task[n].idx) = appended[n]
             /\ InRange(node'[n].LogFile, task[n].idx)
             /\ At(node'[n].LogFile, task[n].idx) = appended[n]]_vars

====
